---- MODULE Spec2Model ----
(***************************************************************************)
(* Animal tracking service: the store of animals, visited locations,       *)
(* animal types and areas, the handlers that change it and the analytics   *)
(* of an area (routers/animals, routers/areas, routers/locations).         *)
(*                                                                         *)
(* Spec          : the handlers of animals and visits, each run to its end *)
(*                 before the next starts.                                 *)
(* ConcSpec      : the same handlers, interleaved at their awaits.         *)
(* AddSpec       : ConcSpec restricted to add_animal_location requests.    *)
(* PairSpec      : the visit handlers on a store with two animals.         *)
(* AnalyticsSpec : create_animal, add_animal_location and the analytics    *)
(*                 of a stored area.                                       *)
(* AreaSpec      : create_area, update_area and delete_area.               *)
(* TypeSpec      : the handlers of the types of an animal.                 *)
(* StoreSpec     : Spec with the deletion of animals, locations and types. *)
(* UpdateAnimalSpec : ConcSpec restricted to update_animal requests.       *)
(* ReduceSpec    : get_analytics applied to any list of positions.         *)
(* CallerSpec    : the handlers of Spec called with and without            *)
(*                 credentials.                                            *)
(*                                                                         *)
(* Outside CallerSpec the callers are authenticated with a sufficient      *)
(* role.  The chipper account named by a payload exists.  The physical     *)
(* attributes of an animal (weight, length, height, gender) are copied     *)
(* like the fields kept here and carry no rule.  Locations and animal      *)
(* types are created                                                       *)
(* before the first state; a polygon is a rectangle with sides along the   *)
(* axes and whole coordinates.                                             *)
(***************************************************************************)
EXTENDS Integers, Sequences, FiniteSets, TLC

VARIABLES animals, visits, nextVisitId, now, response, proc, started,
          nextAnimalId, locations, types, areas, analytics

vars == <<animals, visits, nextVisitId, now, response, proc, started,
          nextAnimalId, locations, types, areas, analytics>>

(* ------------------------------ bounds ---------------------------------- *)
NumLocations == 3
MaxAnimals == 1
MaxTime == 3
NumProcs == 2
MaxRequests == 3
NumTypes == 2

(* death_date_time = None *)
NoDate == 0

Locations == 1..NumLocations
LocationIds == 1..(NumLocations + 1)
AnimalIds == 1..MaxAnimals
Types == 1..NumTypes
TypeIds == 1..(NumTypes + 1)
(* the type lists of a create_animal payload *)
TypeLists == {{}, {1}, {1, 2}, {NumTypes + 1}}
Procs == 1..NumProcs

LifeStatuses == {"ALIVE", "DEAD"}

(* ------------------------------ the store ------------------------------- *)
(* Location.get(id=...) : the locations table is fixed here                 *)
LocationExists(l) == l \in locations

(* Animal.get(id=...) *)
AnimalExists(as, a) == a \in DOMAIN as

(* AnimalVisitedLocation.get(id=...) *)
VisitExists(vs, v) == v \in DOMAIN vs

(* the rows of animal_visited_location of one animal *)
VisitsOf(vs, a) == {v \in DOMAIN vs : vs[v].animal_id = a}

RECURSIVE SortById(_)
(* rows in primary-key order, the order a table scan returns them in *)
SortById(S) ==
    IF S = {} THEN <<>>
    ELSE LET m == CHOOSE x \in S : \A y \in S : x <= y
         IN  <<m>> \o SortById(S \ {m})

RECURSIVE OrderByDate(_, _)
(* .order_by("date_time_of_visit_location_point") *)
OrderByDate(vs, S) ==
    IF S = {} THEN <<>>
    ELSE LET m == CHOOSE x \in S : \A y \in S :
                      \/ vs[x].date_time < vs[y].date_time
                      \/ vs[x].date_time = vs[y].date_time /\ x <= y
         IN  <<m>> \o OrderByDate(vs, S \ {m})

(* animal.fetch_related("visited_locations"); animal.visited_locations *)
FetchRelated(vs, a) == SortById(VisitsOf(vs, a))

(* animal.visited_locations.all().order_by(date_time_of_visit_location_point) *)
SortedLocations(vs, a) == OrderByDate(vs, VisitsOf(vs, a))

(* the location ids along a sequence of visit ids *)
LocationsOf(vs, seq) == [i \in 1..Len(seq) |-> vs[seq[i]].location_point_id]

(* position of visit v in the sequence seq (list.index), 0 when absent *)
IndexOf(seq, v) ==
    IF \E i \in 1..Len(seq) : seq[i] = v
    THEN CHOOSE i \in 1..Len(seq) : seq[i] = v
    ELSE 0

(* await row.delete() *)
DeleteRow(vs, v) == [x \in (DOMAIN vs) \ {v} |-> vs[x]]

(* AnimalVisitedLocation.create(animal=..., location_point=...) *)
CreateRow(vs, id, a, l, t) ==
    [x \in (DOMAIN vs) \cup {id} |->
        IF x = id
        THEN [animal_id |-> a, location_point_id |-> l, date_time |-> t]
        ELSE vs[x]]

(* ------------------------------- answers -------------------------------- *)
(* 200 / 201 *)
Ok == [status |-> "OK", detail |-> ""]

(* tortoise DoesNotExist, or HTTPException(404) *)
NotFound == [status |-> "NotFound", detail |-> ""]

(* HTTPException(status_code=400, detail=...) *)
BadRequest(detail) == [status |-> "BadRequest", detail |-> detail]

(* HTTPException(404): the visit belongs to another animal *)
NotOwned == [status |-> "NotFound", detail |-> "Not Found"]

(* ------------------- add_animal_location: the checks -------------------- *)
IsDead_Never(animal) == FALSE

(* animal.life_status == AnimalLifeStatus.DEAD *)
IsDead(animal) == animal.life_status = "DEAD"

(* no visit yet and the location is the chipping location *)
RepeatsChippingLocation(animal, vl, l) ==
    Len(vl) = 0 /\ l = animal.chipping_location_id

RepeatsLastLocation_First(vs, vl, l) ==
    Len(vl) > 0 /\ l = vs[vl[1]].location_point_id

(* the location is the one of animal.visited_locations[-1] *)
RepeatsLastLocation(vs, vl, l) ==
    Len(vl) > 0 /\ l = vs[vl[Len(vl)]].location_point_id

(* the response of add_animal_location on the store (as, vs) *)
AddStatus(as, vs, a, l) ==
    IF ~AnimalExists(as, a) THEN NotFound
    ELSE IF IsDead(as[a]) THEN BadRequest("animal is dead")
    ELSE IF ~LocationExists(l) THEN NotFound
    ELSE IF RepeatsChippingLocation(as[a], FetchRelated(vs, a), l)
         THEN BadRequest("repeating chipping location")
    ELSE IF RepeatsLastLocation(vs, FetchRelated(vs, a), l)
         THEN BadRequest("repeating location")
    ELSE Ok

(* ------------------ delete_animal_location: the checks ------------------ *)
CascadeCondition_MoreThanTwo(vs, animal, sorted, v) ==
    /\ Len(sorted) > 2
    /\ v = sorted[1]
    /\ animal.chipping_location_id = vs[sorted[2]].location_point_id

(* the deleted visit is the oldest and the second oldest is at the chipping
   location *)
CascadeCondition(vs, animal, sorted, v) ==
    /\ Len(sorted) >= 2
    /\ v = sorted[1]
    /\ animal.chipping_location_id = vs[sorted[2]].location_point_id

DeleteStatus(as, vs, a, v) ==
    IF ~AnimalExists(as, a) THEN NotFound
    ELSE IF ~VisitExists(vs, v) THEN NotFound
    ELSE IF vs[v].animal_id # a THEN NotOwned
    ELSE Ok

DeleteEffect_AnyTarget(as, vs, a, v) ==
    LET sorted == SortedLocations(vs, a)
    IN  IF Len(sorted) >= 2
           /\ as[a].chipping_location_id = vs[sorted[2]].location_point_id
        THEN DeleteRow(DeleteRow(vs, sorted[2]), v)
        ELSE DeleteRow(vs, v)

(* the rows left by a successful delete_animal_location *)
DeleteEffect(as, vs, a, v) ==
    LET sorted == SortedLocations(vs, a)
    IN  IF CascadeCondition(vs, as[a], sorted, v)
        THEN DeleteRow(DeleteRow(vs, sorted[2]), v)
        ELSE DeleteRow(vs, v)

(* ------------------ update_animal_location: the checks ------------------ *)
(* new_location.id == visited_location.location_point_id *)
SameLocation(vs, v, l) == l = vs[v].location_point_id

(* the visit is the oldest and the new location is the chipping location *)
RepeatsChippingOnUpdate(animal, sorted, v, l) ==
    sorted[1] = v /\ l = animal.chipping_location_id

(* the new location is the one of the visit before *)
RepeatsPrevious(vs, sorted, v, l) ==
    LET i == IndexOf(sorted, v)
    IN  i > 1 /\ vs[sorted[i - 1]].location_point_id = l

RepeatsNext_OffByOne(vs, sorted, v, l) ==
    LET i == IndexOf(sorted, v)
    IN  i < Len(sorted) - 1 /\ vs[sorted[i + 1]].location_point_id = l

(* the new location is the one of the visit after *)
RepeatsNext(vs, sorted, v, l) ==
    LET i == IndexOf(sorted, v)
    IN  i < Len(sorted) /\ vs[sorted[i + 1]].location_point_id = l

(* the comparison visited_location.location_point == new_location of line 130
   compares an unfetched relation with a Location row and is never true *)
UpdateStatus(as, vs, a, v, l) ==
    IF ~AnimalExists(as, a) THEN NotFound
    ELSE IF ~LocationExists(l) THEN NotFound
    ELSE IF ~VisitExists(vs, v) THEN NotFound
    ELSE IF SameLocation(vs, v, l) THEN BadRequest("same location")
    ELSE IF vs[v].animal_id # a THEN NotOwned
    ELSE IF RepeatsChippingOnUpdate(as[a], SortedLocations(vs, a), v, l)
         THEN BadRequest("Bad Request")
    ELSE IF RepeatsPrevious(vs, SortedLocations(vs, a), v, l)
         THEN BadRequest("repeating location with the previous one")
    ELSE IF RepeatsNext(vs, SortedLocations(vs, a), v, l)
         THEN BadRequest("repeating location with the next one")
    ELSE Ok

SaveVisit_Touch(vs, v, l) ==
    [vs EXCEPT ![v].location_point_id = l, ![v].date_time = now]

(* visited_location.location_point = new_location; visited_location.save() *)
SaveVisit(vs, v, l) == [vs EXCEPT ![v].location_point_id = l]

(* ----------------------- update_animal: the checks ---------------------- *)
Reactivates_Unchecked(animal, life) == FALSE

(* a DEAD animal and a payload with life status ALIVE *)
Reactivates(animal, life) ==
    animal.life_status = "DEAD" /\ life = "ALIVE"

(* the payload's chipping location is the one of visited_locations[0] *)
SameChippingLocation(vs, vl, chip) ==
    Len(vl) > 0 /\ vs[vl[1]].location_point_id = chip

UpdateAnimalStatus(as, vs, a, life, chip) ==
    IF ~AnimalExists(as, a) THEN NotFound
    ELSE IF Reactivates(as[a], life) THEN BadRequest("animal is dead")
    ELSE IF SameChippingLocation(vs, FetchRelated(vs, a), chip)
         THEN BadRequest("has same chipping location")
    ELSE IF ~LocationExists(chip) THEN NotFound
    ELSE Ok

UpdateFromDict_KeepsChippingLocation(animal, life, chip) ==
    [animal EXCEPT !.life_status = life]

(* animal.update_from_dict(new_animal.dict(exclude_unset=True)) *)
UpdateFromDict(animal, life, chip) ==
    [animal EXCEPT !.life_status = life, !.chipping_location_id = chip]

NeedsDeathDate_WheneverDead(animal) == animal.life_status = "DEAD"

(* DEAD with no death date yet *)
NeedsDeathDate(animal) ==
    animal.life_status = "DEAD" /\ animal.death_date_time = NoDate

(* animal.death_date_time = datetime.now(tz=timezone.utc) *)
SetDeathDate(animal, t) ==
    IF NeedsDeathDate(animal) THEN [animal EXCEPT !.death_date_time = t] ELSE animal

(* the store without animal a *)
Without(as, a) == [x \in DOMAIN as \ {a} |-> as[x]]

(* ------------------------------ responses ------------------------------- *)
(* the handler that answered last, its answer, and the number of rows it
   wrote or deleted *)
Resp(op, answer, writes) ==
    [op |-> op, status |-> answer.status, detail |-> answer.detail, writes |-> writes]

NoResponse == [op |-> "none", status |-> "-", detail |-> "", writes |-> 0]

(* a request slot with no request in flight *)
IdleProc == [pc |-> "idle", writes |-> 0]

(* the table of areas, empty: its rows by id and the id of the next row *)
NoAreas == [next_id |-> 1, rows |-> <<>>]

(* the body of the last response when it is not an analytics report *)
NoAnalytics == [area_id |-> 0]

(* the store once the locations and the animal types have been created *)
Init ==
    /\ animals = <<>>
    /\ nextAnimalId = 1
    /\ visits = <<>>
    /\ nextVisitId = 1
    /\ now = 1
    /\ locations = Locations
    /\ types = Types
    /\ areas = NoAreas
    /\ analytics = NoAnalytics
    /\ response = NoResponse
    /\ proc = [p \in Procs |-> IdleProc]
    /\ started = 0

(* ---------------- the handlers, one request at a time ------------------- *)
(* create_animal: the payload needs at least one type; the chipping location
   and every type must exist *)
CreateAnimalStatus(chip, type_ids) ==
    IF type_ids = {} THEN BadRequest("validation")
    ELSE IF ~LocationExists(chip) THEN NotFound
    ELSE IF ~(type_ids \subseteq types) THEN NotFound
    ELSE Ok

(* POST /animals *)
create_animal(chip, life, type_ids) ==
    LET st == CreateAnimalStatus(chip, type_ids)
    IN  /\ st = Ok => nextAnimalId <= MaxAnimals
        /\ animals' =
             IF st = Ok
             THEN (nextAnimalId :>
                    [life_status |-> IF life = "UNSET" THEN "ALIVE" ELSE life,
                     chipping_location_id |-> chip,
                     chipping_date_time |-> now,
                     death_date_time |-> NoDate,
                     animal_types |-> type_ids]) @@ animals
             ELSE animals
        /\ nextAnimalId' = IF st = Ok THEN nextAnimalId + 1 ELSE nextAnimalId
        /\ response' = Resp("create", st, IF st = Ok THEN 2 ELSE 0)
        /\ analytics' = NoAnalytics
        /\ UNCHANGED <<visits, nextVisitId, now, proc, started, locations, types, areas>>

(* POST /animals/{animal_id}/locations/{location_id} *)
add_animal_location(a, l) ==
    LET st == AddStatus(animals, visits, a, l)
    IN  /\ st = Ok => now <= MaxTime
        /\ visits' = IF st = Ok
                     THEN CreateRow(visits, nextVisitId, a, l, now)
                     ELSE visits
        /\ nextVisitId' = IF st = Ok THEN nextVisitId + 1 ELSE nextVisitId
        /\ now' = IF st = Ok THEN now + 1 ELSE now
        /\ response' = Resp("add", st, IF st = Ok THEN 1 ELSE 0)
        /\ analytics' = NoAnalytics
        /\ UNCHANGED <<animals, proc, started, nextAnimalId, locations, types, areas>>

(* delete_animal_location, deleting the named row before the owner check *)
delete_animal_location_DeleteFirst(a, v) ==
    LET st == DeleteStatus(animals, visits, a, v)
    IN  /\ visits' = IF st = Ok THEN DeleteEffect(animals, visits, a, v)
                     ELSE DeleteRow(visits, v)
        /\ response' = Resp("delete", st,
                           Cardinality(DOMAIN visits) - Cardinality(DOMAIN visits'))
        /\ analytics' = NoAnalytics
        /\ UNCHANGED <<animals, nextVisitId, now, proc, started, nextAnimalId, locations, types, areas>>

(* DELETE /animals/{animal_id}/locations/{location_id} *)
delete_animal_location(a, v) ==
    LET st == DeleteStatus(animals, visits, a, v)
    IN  /\ visits' = IF st = Ok THEN DeleteEffect(animals, visits, a, v) ELSE visits
        /\ response' = Resp("delete", st,
                           IF st = Ok
                           THEN Cardinality(DOMAIN visits) - Cardinality(DOMAIN visits')
                           ELSE 0)
        /\ analytics' = NoAnalytics
        /\ UNCHANGED <<animals, nextVisitId, now, proc, started, nextAnimalId, locations, types, areas>>

(* PUT /animals/{animal_id}/locations *)
update_animal_location(a, v, l) ==
    LET st == UpdateStatus(animals, visits, a, v, l)
    IN  /\ visits' = IF st = Ok THEN SaveVisit(visits, v, l) ELSE visits
        /\ response' = Resp("update", st, IF st = Ok THEN 1 ELSE 0)
        /\ analytics' = NoAnalytics
        /\ UNCHANGED <<animals, nextVisitId, now, proc, started, nextAnimalId, locations, types, areas>>

(* PUT /animals/{animal_id} *)
update_animal(a, life, chip) ==
    LET st == UpdateAnimalStatus(animals, visits, a, life, chip)
        updated == UpdateFromDict(animals[a], life, chip)
    IN  /\ (st = Ok /\ NeedsDeathDate(updated)) => now <= MaxTime
        /\ animals' = IF st = Ok
                      THEN [animals EXCEPT ![a] = SetDeathDate(updated, now)]
                      ELSE animals
        /\ now' = IF st = Ok /\ NeedsDeathDate(updated) THEN now + 1 ELSE now
        /\ response' = Resp("update_animal", st, IF st = Ok THEN 1 ELSE 0)
        /\ analytics' = NoAnalytics
        /\ UNCHANGED <<visits, nextVisitId, proc, started, nextAnimalId, locations, types, areas>>

Next ==
    \/ \E chip \in LocationIds, life \in LifeStatuses \cup {"UNSET"},
          type_ids \in TypeLists : create_animal(chip, life, type_ids)
    \/ \E a \in AnimalIds, l \in LocationIds : add_animal_location(a, l)
    \/ \E a \in AnimalIds, v \in 1..nextVisitId : delete_animal_location(a, v)
    \/ \E a \in AnimalIds, v \in 1..nextVisitId, l \in LocationIds :
          update_animal_location(a, v, l)
    \/ \E a \in AnimalIds, life \in LifeStatuses, chip \in LocationIds :
          update_animal(a, life, chip)

Spec == Init /\ [][Next]_vars

(* ------------- the handlers, interleaved at their awaits ---------------- *)
(* an unhandled IndexError / ValueError *)
ServerError == [status |-> "ServerError", detail |-> ""]

(* the request of slot p has been answered *)
Done(op, answer, writes) ==
    [pc |-> "done", op |-> op, status |-> answer.status,
     detail |-> answer.detail, writes |-> writes]

(* slot p can take a new request *)
Idle(p) == proc[p].pc \in {"idle", "done"} /\ started < MaxRequests

(* add_animal_location: Animal.get, the DEAD check, Location.get *)
AddBegin(p, a, l) ==
    /\ Idle(p)
    /\ started' = started + 1
    /\ proc' = [proc EXCEPT ![p] =
          IF ~AnimalExists(animals, a) THEN Done("add", NotFound, 0)
          ELSE IF IsDead(animals[a]) THEN Done("add", BadRequest("animal is dead"), 0)
          ELSE IF ~LocationExists(l) THEN Done("add", NotFound, 0)
          ELSE [pc |-> "add_fetch", op |-> "add", animal_id |-> a,
                location_id |-> l, animal |-> animals[a], writes |-> 0]]
    /\ UNCHANGED <<animals, visits, nextVisitId, now, response, nextAnimalId, locations, types, areas, analytics>>

(* add_animal_location: fetch_related and the two repeat checks *)
AddFetch(p) ==
    /\ proc[p].pc = "add_fetch"
    /\ LET r == proc[p]
           vl == FetchRelated(visits, r.animal_id)
       IN  proc' = [proc EXCEPT ![p] =
             IF RepeatsChippingLocation(r.animal, vl, r.location_id)
             THEN Done("add", BadRequest("repeating chipping location"), 0)
             ELSE IF RepeatsLastLocation(visits, vl, r.location_id)
             THEN Done("add", BadRequest("repeating location"), 0)
             ELSE [r EXCEPT !.pc = "add_create"]]
    /\ UNCHANGED <<animals, visits, nextVisitId, now, response, started, nextAnimalId, locations, types, areas, analytics>>

(* add_animal_location: AnimalVisitedLocation.create *)
AddCreate(p) ==
    /\ proc[p].pc = "add_create"
    /\ now <= MaxTime
    /\ visits' = CreateRow(visits, nextVisitId, proc[p].animal_id,
                           proc[p].location_id, now)
    /\ nextVisitId' = nextVisitId + 1
    /\ now' = now + 1
    /\ proc' = [proc EXCEPT ![p] = Done("add", Ok, 1)]
    /\ UNCHANGED <<animals, response, started, nextAnimalId, locations, types, areas, analytics>>

(* delete_animal_location: Animal.get *)
DeleteBegin(p, a, v) ==
    /\ Idle(p)
    /\ started' = started + 1
    /\ proc' = [proc EXCEPT ![p] =
          IF ~AnimalExists(animals, a) THEN Done("delete", NotFound, 0)
          ELSE [pc |-> "delete_get", op |-> "delete", animal_id |-> a,
                visit_id |-> v, animal |-> animals[a], writes |-> 0]]
    /\ UNCHANGED <<animals, visits, nextVisitId, now, response, nextAnimalId, locations, types, areas, analytics>>

(* delete_animal_location: AnimalVisitedLocation.get and the owner check *)
DeleteGet(p) ==
    /\ proc[p].pc = "delete_get"
    /\ LET r == proc[p]
       IN  proc' = [proc EXCEPT ![p] =
             IF ~VisitExists(visits, r.visit_id) THEN Done("delete", NotFound, 0)
             ELSE IF visits[r.visit_id].animal_id # r.animal_id
             THEN Done("delete", NotOwned, 0)
             ELSE [r EXCEPT !.pc = "delete_sort"]]
    /\ UNCHANGED <<animals, visits, nextVisitId, now, response, started, nextAnimalId, locations, types, areas, analytics>>

(* delete_animal_location: the ordered query and the cascade condition *)
DeleteSort(p) ==
    /\ proc[p].pc = "delete_sort"
    /\ LET r == proc[p]
           sorted == SortedLocations(visits, r.animal_id)
       IN  proc' = [proc EXCEPT ![p] =
             IF CascadeCondition(visits, r.animal, sorted, r.visit_id)
             THEN [pc |-> "delete_second", op |-> "delete", animal_id |-> r.animal_id,
                   visit_id |-> r.visit_id, second |-> sorted[2], writes |-> 0]
             ELSE [pc |-> "delete_target", op |-> "delete", animal_id |-> r.animal_id,
                   visit_id |-> r.visit_id, writes |-> 0]]
    /\ UNCHANGED <<animals, visits, nextVisitId, now, response, started, nextAnimalId, locations, types, areas, analytics>>

(* delete_animal_location: sorted_locations[1].delete() *)
DeleteSecond(p) ==
    /\ proc[p].pc = "delete_second"
    /\ visits' = DeleteRow(visits, proc[p].second)
    /\ proc' = [proc EXCEPT ![p] =
          [pc |-> "delete_target", op |-> "delete", animal_id |-> proc[p].animal_id,
           visit_id |-> proc[p].visit_id, writes |-> proc[p].writes + 1]]
    /\ UNCHANGED <<animals, nextVisitId, now, response, started, nextAnimalId, locations, types, areas, analytics>>

(* delete_animal_location: location.delete() *)
DeleteTarget(p) ==
    /\ proc[p].pc = "delete_target"
    /\ visits' = DeleteRow(visits, proc[p].visit_id)
    /\ proc' = [proc EXCEPT ![p] = Done("delete", Ok, proc[p].writes + 1)]
    /\ UNCHANGED <<animals, nextVisitId, now, response, started, nextAnimalId, locations, types, areas, analytics>>

(* update_animal_location: Animal.get and Location.get *)
UpdateBegin(p, a, v, l) ==
    /\ Idle(p)
    /\ started' = started + 1
    /\ proc' = [proc EXCEPT ![p] =
          IF ~AnimalExists(animals, a) THEN Done("update", NotFound, 0)
          ELSE IF ~LocationExists(l) THEN Done("update", NotFound, 0)
          ELSE [pc |-> "update_get", op |-> "update", animal_id |-> a,
                visit_id |-> v, location_id |-> l, animal |-> animals[a],
                writes |-> 0]]
    /\ UNCHANGED <<animals, visits, nextVisitId, now, response, nextAnimalId, locations, types, areas, analytics>>

(* update_animal_location: AnimalVisitedLocation.get, the same-location and
   owner checks *)
UpdateGet(p) ==
    /\ proc[p].pc = "update_get"
    /\ LET r == proc[p]
       IN  proc' = [proc EXCEPT ![p] =
             IF ~VisitExists(visits, r.visit_id) THEN Done("update", NotFound, 0)
             ELSE IF SameLocation(visits, r.visit_id, r.location_id)
             THEN Done("update", BadRequest("same location"), 0)
             ELSE IF visits[r.visit_id].animal_id # r.animal_id
             THEN Done("update", NotOwned, 0)
             ELSE [pc |-> "update_sort", op |-> "update", animal_id |-> r.animal_id,
                   visit_id |-> r.visit_id, location_id |-> r.location_id,
                   animal |-> r.animal, row |-> visits[r.visit_id], writes |-> 0]]
    /\ UNCHANGED <<animals, visits, nextVisitId, now, response, started, nextAnimalId, locations, types, areas, analytics>>

(* update_animal_location: the ordered query and the adjacency checks; a
   visit deleted since UpdateGet is missing from the list *)
UpdateSort(p) ==
    /\ proc[p].pc = "update_sort"
    /\ LET r == proc[p]
           sorted == SortedLocations(visits, r.animal_id)
       IN  proc' = [proc EXCEPT ![p] =
             IF IndexOf(sorted, r.visit_id) = 0 THEN Done("update", ServerError, 0)
             ELSE IF RepeatsChippingOnUpdate(r.animal, sorted, r.visit_id, r.location_id)
             THEN Done("update", BadRequest("Bad Request"), 0)
             ELSE IF RepeatsPrevious(visits, sorted, r.visit_id, r.location_id)
             THEN Done("update", BadRequest("repeating location with the previous one"), 0)
             ELSE IF RepeatsNext(visits, sorted, r.visit_id, r.location_id)
             THEN Done("update", BadRequest("repeating location with the next one"), 0)
             ELSE [pc |-> "update_save", op |-> "update", visit_id |-> r.visit_id,
                   location_id |-> r.location_id, row |-> r.row, writes |-> 0]]
    /\ UNCHANGED <<animals, visits, nextVisitId, now, response, started, nextAnimalId, locations, types, areas, analytics>>

(* update_animal_location: visited_location.save(), an UPDATE by id of the
   row read in UpdateGet *)
UpdateSave(p) ==
    /\ proc[p].pc = "update_save"
    /\ LET r == proc[p]
       IN  visits' = IF VisitExists(visits, r.visit_id)
                     THEN [visits EXCEPT ![r.visit_id] =
                             [r.row EXCEPT !.location_point_id = r.location_id]]
                     ELSE visits
    /\ proc' = [proc EXCEPT ![p] = Done("update", Ok, 1)]
    /\ UNCHANGED <<animals, nextVisitId, now, response, started, nextAnimalId, locations, types, areas, analytics>>

(* update_animal: Animal.get *)
UpdateAnimalBegin(p, a, life, chip) ==
    /\ Idle(p)
    /\ started' = started + 1
    /\ proc' = [proc EXCEPT ![p] =
          IF ~AnimalExists(animals, a) THEN Done("update_animal", NotFound, 0)
          ELSE [pc |-> "update_animal_fetch", op |-> "update_animal", animal_id |-> a,
                life_status |-> life, chipping_location_id |-> chip,
                animal |-> animals[a], writes |-> 0]]
    /\ UNCHANGED <<animals, visits, nextVisitId, now, response, nextAnimalId, locations, types, areas, analytics>>

(* update_animal: fetch_related, the checks, update_from_dict and the death
   date, all on the record read by Animal.get *)
UpdateAnimalFetch(p) ==
    /\ proc[p].pc = "update_animal_fetch"
    /\ LET r == proc[p]
           vl == FetchRelated(visits, r.animal_id)
           updated == UpdateFromDict(r.animal, r.life_status, r.chipping_location_id)
           rejected ==
               IF Reactivates(r.animal, r.life_status)
               THEN BadRequest("animal is dead")
               ELSE IF SameChippingLocation(visits, vl, r.chipping_location_id)
               THEN BadRequest("has same chipping location")
               ELSE IF ~LocationExists(r.chipping_location_id) THEN NotFound
               ELSE Ok
       IN  /\ (rejected = Ok /\ NeedsDeathDate(updated)) => now <= MaxTime
           /\ now' = IF rejected = Ok /\ NeedsDeathDate(updated) THEN now + 1 ELSE now
           /\ proc' = [proc EXCEPT ![p] =
                IF rejected # Ok THEN Done("update_animal", rejected, 0)
                ELSE [pc |-> "update_animal_save", op |-> "update_animal",
                      animal_id |-> r.animal_id,
                      animal |-> SetDeathDate(updated, now), writes |-> 0]]
    /\ UNCHANGED <<animals, visits, nextVisitId, response, started, nextAnimalId, locations, types, areas, analytics>>

(* update_animal: animal.save(), an UPDATE of every column *)
UpdateAnimalSave(p) ==
    /\ proc[p].pc = "update_animal_save"
    /\ animals' = [animals EXCEPT ![proc[p].animal_id] = proc[p].animal]
    /\ proc' = [proc EXCEPT ![p] = Done("update_animal", Ok, 1)]
    /\ UNCHANGED <<visits, nextVisitId, now, response, started, nextAnimalId, locations, types, areas, analytics>>

(* the store after create_animal has stored one ALIVE animal *)
ConcInit ==
    /\ animals \in {<<[life_status |-> "ALIVE", chipping_location_id |-> c,
                       chipping_date_time |-> 1, death_date_time |-> NoDate,
                       animal_types |-> {1}]>> : c \in Locations}
    /\ nextAnimalId = 2
    /\ visits = <<>>
    /\ nextVisitId = 1
    /\ now = 1
    /\ locations = Locations
    /\ types = Types
    /\ areas = NoAreas
    /\ analytics = NoAnalytics
    /\ response = NoResponse
    /\ proc = [p \in Procs |-> IdleProc]
    /\ started = 0

(* the animal ids a request can name: the stored ones and a missing one *)
RequestAnimalIds == 1..nextAnimalId

AddStep(p) ==
    \/ \E a \in RequestAnimalIds, l \in LocationIds : AddBegin(p, a, l)
    \/ AddFetch(p)
    \/ AddCreate(p)

DeleteStep(p) ==
    \/ \E a \in RequestAnimalIds, v \in 1..nextVisitId : DeleteBegin(p, a, v)
    \/ DeleteGet(p)
    \/ DeleteSort(p)
    \/ DeleteSecond(p)
    \/ DeleteTarget(p)

UpdateStep(p) ==
    \/ \E a \in RequestAnimalIds, v \in 1..nextVisitId, l \in LocationIds :
          UpdateBegin(p, a, v, l)
    \/ UpdateGet(p)
    \/ UpdateSort(p)
    \/ UpdateSave(p)

UpdateAnimalStep(p) ==
    \/ \E a \in RequestAnimalIds, life \in LifeStatuses, chip \in LocationIds :
          UpdateAnimalBegin(p, a, life, chip)
    \/ UpdateAnimalFetch(p)
    \/ UpdateAnimalSave(p)

ConcNext ==
    \E p \in Procs : AddStep(p) \/ DeleteStep(p) \/ UpdateStep(p) \/ UpdateAnimalStep(p)

ConcSpec == ConcInit /\ [][ConcNext]_vars

(* only add_animal_location requests, interleaved *)
AddNext == \E p \in Procs : AddStep(p)

AddSpec == ConcInit /\ [][AddNext]_vars

(* only update_animal requests, interleaved *)
UpdateAnimalNext == \E p \in Procs : UpdateAnimalStep(p)

UpdateAnimalSpec == ConcInit /\ [][UpdateAnimalNext]_vars

(* ------------------------- the position sequence ------------------------ *)
(* the trail of animal a, oldest first *)
Trail(vs, a) == SortedLocations(vs, a)

(* chipping location, then the locations of the trail, oldest first *)
PositionSeq(as, vs, a) ==
    <<as[a].chipping_location_id>> \o LocationsOf(vs, Trail(vs, a))

NoImmediateRepeat(seq) == \A i \in 1..(Len(seq) - 1) : seq[i] # seq[i + 1]

(* every row of vs is in ws, unchanged *)
RowsKept(vs, ws, ids) == \A x \in ids : x \in DOMAIN ws /\ ws[x] = vs[x]

(* C1: after any sequence of handlers run one at a time, no two adjacent
   positions of chipping location, trail[0], ..., trail[n-1] of any animal
   reference the same location (I2). *)
C1_NoImmediateRepeat ==
    \A a \in DOMAIN animals : NoImmediateRepeat(PositionSeq(animals, visits, a))

(* C3: on an ALIVE animal, adding the location of the newest position (the
   newest visit, or the chipping location when there is no visit) is answered
   BadRequest and writes nothing; adding any other existing location is
   answered OK and appends exactly one new visit at that location as the
   newest entry of the trail. *)
C3_AddRejectsRepeatElseAppends ==
    [][\A a \in AnimalIds, l \in Locations :
         (/\ AnimalExists(animals, a)
          /\ animals[a].life_status = "ALIVE"
          /\ add_animal_location(a, l))
         => LET seq == PositionSeq(animals, visits, a)
                old == Trail(visits, a)
                new == Trail(visits', a)
            IN  IF l = seq[Len(seq)]
                THEN response'.status = "BadRequest" /\ visits' = visits
                ELSE /\ response'.status = "OK"
                     /\ Len(new) = Len(old) + 1
                     /\ SubSeq(new, 1, Len(old)) = old
                     /\ new[Len(new)] \notin DOMAIN visits
                     /\ visits'[new[Len(new)]].location_point_id = l
                     /\ DOMAIN visits' = DOMAIN visits \cup {new[Len(new)]}
                     /\ RowsKept(visits, visits', DOMAIN visits)]_vars

(* an add was answered "repeating location" for an ALIVE animal with visits *)
C3_Witness ==
    /\ response.op = "add"
    /\ response.detail = "repeating location"
    /\ \E a \in DOMAIN animals :
          animals[a].life_status = "ALIVE" /\ Len(Trail(visits, a)) >= 2

(* C4: while an animal is DEAD it stays DEAD, every add for it is answered
   BadRequest whatever the location (existing or not), and no step gives it
   a new visit. *)
C4_DeadNeverGainsVisit ==
    [][\A a \in DOMAIN animals :
         animals[a].life_status = "DEAD"
         => /\ a \in DOMAIN animals' /\ animals'[a].life_status = "DEAD"
            /\ VisitsOf(visits', a) \subseteq VisitsOf(visits, a)
            /\ \A l \in LocationIds :
                 add_animal_location(a, l)
                 => response'.status = "BadRequest" /\ visits' = visits]_vars

(* an add was answered "animal is dead" *)
C4_Witness ==
    /\ response.op = "add"
    /\ response.detail = "animal is dead"
    /\ \E a \in DOMAIN animals : animals[a].life_status = "DEAD"

(* C5: deleting the oldest visit of a trail of at least two visits whose
   second oldest visit is at the chipping location removes exactly these two
   visits: the trail becomes the old trail without its first two entries and
   every other row is unchanged. *)
C5_CascadeDelete ==
    [][\A a \in DOMAIN animals, v \in DOMAIN visits :
         LET old == Trail(visits, a)
         IN  (/\ Len(old) >= 2
              /\ v = old[1]
              /\ visits[old[2]].location_point_id = animals[a].chipping_location_id
              /\ delete_animal_location(a, v))
             => /\ response'.status = "OK"
                /\ DOMAIN visits' = DOMAIN visits \ {old[1], old[2]}
                /\ RowsKept(visits, visits', DOMAIN visits \ {old[1], old[2]})
                /\ Trail(visits', a) = SubSeq(old, 3, Len(old))]_vars

(* a delete removed two rows and left one visit of a trail of three *)
C5_Witness ==
    /\ response.op = "delete"
    /\ response.writes = 2
    /\ \E a \in DOMAIN animals : Len(Trail(visits, a)) = 1

(* C6: for a visit s of the animal, an update to the location of the position
   before s (the visit before, or the chipping location when s is the
   oldest) or of the visit after s is answered BadRequest and writes nothing;
   an update to any other existing location different from the current one
   is answered OK and stores that location on s. *)
C6_UpdateAdjacency ==
    [][\A a \in DOMAIN animals, v \in DOMAIN visits, l \in Locations :
         (visits[v].animal_id = a /\ update_animal_location(a, v, l))
         => LET seq == PositionSeq(animals, visits, a)
                i == IndexOf(Trail(visits, a), v) + 1
            IN  IF l = seq[i - 1] \/ (i < Len(seq) /\ l = seq[i + 1])
                THEN response'.status = "BadRequest" /\ visits' = visits
                ELSE l # seq[i]
                     => /\ response'.status = "OK"
                        /\ visits' = [visits EXCEPT ![v].location_point_id = l]]_vars

(* an update was answered "repeating location with the next one" *)
C6_Witness ==
    /\ response.op = "update"
    /\ response.detail = "repeating location with the next one"

(* C7: a DEAD animal is DEAD after every step, and every update_animal of a
   DEAD animal with life status ALIVE in the payload is answered BadRequest
   and writes nothing. *)
C7_DeadIsTerminal ==
    [][\A a \in DOMAIN animals :
         animals[a].life_status = "DEAD"
         => /\ a \in DOMAIN animals' /\ animals'[a].life_status = "DEAD"
            /\ \A chip \in LocationIds :
                 update_animal(a, "ALIVE", chip)
                 => response'.status = "BadRequest" /\ animals' = animals]_vars

(* an update_animal was answered "animal is dead" *)
C7_Witness ==
    /\ response.op = "update_animal"
    /\ response.detail = "animal is dead"
    /\ \E a \in DOMAIN animals : animals[a].life_status = "DEAD"

(* C8: a step that takes an animal from ALIVE to DEAD leaves it with a death
   date, and no step changes a death date that is set. *)
C8_DeathDateSetOnce ==
    [][\A a \in DOMAIN animals :
         /\ (animals[a].life_status = "ALIVE" /\ animals'[a].life_status = "DEAD")
            => animals'[a].death_date_time # NoDate
         /\ animals[a].death_date_time # NoDate
            => animals'[a].death_date_time = animals[a].death_date_time]_vars

(* an update_animal succeeded and left an animal, which had gained a visit
   while ALIVE, DEAD with a death date *)
C8_Witness ==
    /\ response.op = "update_animal"
    /\ response.status = "OK"
    /\ \E a \in DOMAIN animals :
          /\ animals[a].life_status = "DEAD"
          /\ animals[a].death_date_time # NoDate
          /\ Len(Trail(visits, a)) >= 1

C2_ConcurrentAddsKeepI2 ==
    \A a \in DOMAIN animals :
        LET trail == LocationsOf(visits, Trail(visits, a))
        IN  /\ \A i \in 1..(Len(trail) - 1) : trail[i] # trail[i + 1]
            /\ Len(trail) >= 1 => trail[1] # animals[a].chipping_location_id

(* C10: no request issues more than one store mutation, and no request is
   ever between two mutations of its own. *)
C10_AtMostOneWrite ==
    \A p \in Procs :
        /\ proc[p].writes <= 1
        /\ ~(proc[p].pc = "delete_target" /\ proc[p].writes = 1)

(* ------------------- two animals, one request at a time ----------------- *)
(* an ALIVE animal as create_animal stores it at time 1 *)
NewAnimal(chip) ==
    [life_status |-> "ALIVE", chipping_location_id |-> chip,
     chipping_date_time |-> 1, death_date_time |-> NoDate, animal_types |-> {1}]

(* the store after two create_animal requests *)
PairInit ==
    /\ animals \in {<<NewAnimal(c1), NewAnimal(c2)>> : c1, c2 \in Locations}
    /\ nextAnimalId = 3
    /\ visits = <<>>
    /\ nextVisitId = 1
    /\ now = 1
    /\ locations = Locations
    /\ types = Types
    /\ areas = NoAreas
    /\ analytics = NoAnalytics
    /\ response = NoResponse
    /\ proc = [p \in Procs |-> IdleProc]
    /\ started = 0

PairNext ==
    \/ \E a \in RequestAnimalIds, l \in LocationIds : add_animal_location(a, l)
    \/ \E a \in RequestAnimalIds, v \in 1..nextVisitId : delete_animal_location(a, v)
    \/ \E a \in RequestAnimalIds, v \in 1..nextVisitId, l \in LocationIds :
          update_animal_location(a, v, l)
    \/ \E a \in RequestAnimalIds, life \in LifeStatuses, chip \in LocationIds :
          update_animal(a, life, chip)

PairSpec == PairInit /\ [][PairNext]_vars

(* C11: a rejected add_animal_location, delete_animal_location,
   update_animal_location or update_animal leaves the stored animals and
   visits exactly as they were. *)
C11_RejectionLeavesStore ==
    [][(/\ response'.op \in {"add", "delete", "update", "update_animal"}
        /\ response'.status \in {"BadRequest", "NotFound"})
       => (animals' = animals /\ visits' = visits)]_vars

(* a delete_animal_location or update_animal_location was answered NotFound
   for a visit that is stored but belongs to another animal, while the store
   holds visits *)
C11_Witness ==
    /\ response.op \in {"delete", "update"}
    /\ response = Resp(response.op, NotOwned, 0)
    /\ \E a \in DOMAIN animals : Len(Trail(visits, a)) >= 2

(* --------------------------- areas and geometry ------------------------- *)
(* coordinates are whole numbers of 0..GridSize; location l lies at (l, l) *)
GridSize == 3
MaxAreas == 2

Coordinates == 0..GridSize

LocationPoint(l) == [latitude |-> l, longitude |-> l]

(* the polygons of a payload: rectangles with sides along the axes, given by
   their smallest and largest latitude and longitude; one without extent in
   a direction is not a valid polygon *)
Polygons ==
    {poly \in [lat1 : Coordinates, lat2 : Coordinates,
               lon1 : Coordinates, lon2 : Coordinates] :
        poly.lat1 <= poly.lat2 /\ poly.lon1 <= poly.lon2}

(* Polygon.is_valid *)
IsValid(poly) == poly.lat1 < poly.lat2 /\ poly.lon1 < poly.lon2

(* Point(latitude, longitude).intersects(area): the border counts *)
PointIntersects(pt, poly) ==
    /\ poly.lat1 <= pt.latitude /\ pt.latitude <= poly.lat2
    /\ poly.lon1 <= pt.longitude /\ pt.longitude <= poly.lon2

(* a.equals(b) *)
PolygonEquals(a, b) == a = b

(* a.contains(b): no point of b outside a *)
PolygonContains(a, b) ==
    /\ a.lat1 <= b.lat1 /\ b.lat2 <= a.lat2
    /\ a.lon1 <= b.lon1 /\ b.lon2 <= a.lon2

(* the interiors of a and b share a point *)
InteriorsMeet(a, b) ==
    /\ a.lat1 < b.lat2 /\ b.lat1 < a.lat2
    /\ a.lon1 < b.lon2 /\ b.lon1 < a.lon2

(* a.overlaps(b): the interiors share a point and neither contains the other *)
PolygonOverlaps(a, b) ==
    InteriorsMeet(a, b) /\ ~PolygonContains(a, b) /\ ~PolygonContains(b, a)

(* an IntegrityError *)
Conflict == [status |-> "Conflict", detail |-> ""]

AreaNames == {"north", "south"}

(* validate_area, what the loop raises for one other area *)
AreaOffence(current, other) ==
    IF PolygonEquals(current, other) THEN Conflict
    ELSE IF PolygonOverlaps(current, other) THEN BadRequest("overlaps")
    ELSE IF PolygonContains(current, other) THEN BadRequest("contains")
    ELSE IF PolygonContains(other, current) THEN BadRequest("is inside")
    ELSE Ok

(* validate_area without the check of an area that lies around the new one *)
ValidateArea_NoInside(rows, pk, poly) ==
    LET others == {x \in DOMAIN rows : x # pk}
        bad == {x \in others :
                  /\ AreaOffence(poly, rows[x].area_points) # Ok
                  /\ ~PolygonContains(rows[x].area_points, poly)}
    IN  IF ~IsValid(poly) THEN BadRequest("invalid polygon")
        ELSE IF pk \in DOMAIN rows /\ PolygonEquals(rows[pk].area_points, poly) THEN Ok
        ELSE IF bad = {} THEN Ok
        ELSE AreaOffence(poly, rows[CHOOSE x \in bad : \A y \in bad : x <= y].area_points)

(* validate_area, the pre_save signal of Area: pk is the id of the saved
   row, 0 for a new one; the first other area at fault decides *)
ValidateArea(rows, pk, poly) ==
    LET others == {x \in DOMAIN rows : x # pk}
        bad == {x \in others : AreaOffence(poly, rows[x].area_points) # Ok}
    IN  IF ~IsValid(poly) THEN BadRequest("invalid polygon")
        ELSE IF pk \in DOMAIN rows /\ PolygonEquals(rows[pk].area_points, poly) THEN Ok
        ELSE IF bad = {} THEN Ok
        ELSE AreaOffence(poly, rows[CHOOSE x \in bad : \A y \in bad : x <= y].area_points)

(* the unique constraint on Area.name *)
NameTaken(rows, pk, name) == \E x \in DOMAIN rows : x # pk /\ rows[x].name = name

(* pre_save, then the INSERT or UPDATE *)
SaveAreaStatus(rows, pk, name, poly) ==
    IF ValidateArea(rows, pk, poly) # Ok THEN ValidateArea(rows, pk, poly)
    ELSE IF NameTaken(rows, pk, name) THEN Conflict
    ELSE Ok

(* POST /areas *)
create_area(name, poly) ==
    LET st == SaveAreaStatus(areas.rows, 0, name, poly)
    IN  /\ st = Ok => areas.next_id <= MaxAreas
        /\ areas' = IF st = Ok
                    THEN [next_id |-> areas.next_id + 1,
                          rows |-> (areas.next_id :>
                                      [name |-> name, area_points |-> poly])
                                   @@ areas.rows]
                    ELSE areas
        /\ response' = Resp("create_area", st, IF st = Ok THEN 1 ELSE 0)
        /\ analytics' = NoAnalytics
        /\ UNCHANGED <<animals, visits, nextVisitId, now, proc, started,
                       nextAnimalId, locations, types>>

(* PUT /areas/{area_id} *)
update_area(area_id, name, poly) ==
    LET st == IF area_id \notin DOMAIN areas.rows THEN NotFound
              ELSE SaveAreaStatus(areas.rows, area_id, name, poly)
    IN  /\ areas' = IF st = Ok
                    THEN [areas EXCEPT !.rows[area_id] =
                             [name |-> name, area_points |-> poly]]
                    ELSE areas
        /\ response' = Resp("update_area", st, IF st = Ok THEN 1 ELSE 0)
        /\ analytics' = NoAnalytics
        /\ UNCHANGED <<animals, visits, nextVisitId, now, proc, started,
                       nextAnimalId, locations, types>>

(* DELETE /areas/{area_id} *)
delete_area(area_id) ==
    LET st == IF area_id \notin DOMAIN areas.rows THEN NotFound ELSE Ok
    IN  /\ areas' = IF st = Ok
                    THEN [areas EXCEPT !.rows =
                             [x \in DOMAIN areas.rows \ {area_id} |-> areas.rows[x]]]
                    ELSE areas
        /\ response' = Resp("delete_area", st, IF st = Ok THEN 1 ELSE 0)
        /\ analytics' = NoAnalytics
        /\ UNCHANGED <<animals, visits, nextVisitId, now, proc, started,
                       nextAnimalId, locations, types>>

(* the polygons of the area payloads: those short of the last grid line *)
AreaPolygons == {poly \in Polygons : poly.lat2 < GridSize /\ poly.lon2 < GridSize}

AreaNext ==
    \/ \E name \in AreaNames, poly \in AreaPolygons : create_area(name, poly)
    \/ \E area_id \in 1..areas.next_id, name \in AreaNames, poly \in AreaPolygons :
          update_area(area_id, name, poly)
    \/ \E area_id \in 1..areas.next_id : delete_area(area_id)

AreaSpec == Init /\ [][AreaNext]_vars

(* ------------------------------- analytics ------------------------------ *)
(* a timestamp counts half days: datetime.date() and the datetime a date is
   compared as *)
DateOf(t) == t \div 2

Midnight(d) == 2 * d

(* startDate / endDate left out of the query *)
NoQueryDate == -1

QueryDates == {NoQueryDate} \cup 0..DateOf(MaxTime + 1)

(* get_all_visits_and_locations: the ids of the locations in the area *)
LocationsInArea(poly) ==
    {l \in locations : PointIntersects(LocationPoint(l), poly)}

(* the filter with lt in place of lte *)
UntilEndDate_Strict(vs, S, end_date) ==
    IF end_date = NoQueryDate THEN S
    ELSE {v \in S : vs[v].date_time < Midnight(end_date)}

(* filter(date_time_of_visit_location_point__lte=end_date) *)
UntilEndDate(vs, S, end_date) ==
    IF end_date = NoQueryDate THEN S
    ELSE {v \in S : vs[v].date_time <= Midnight(end_date)}

(* get_all_visits_and_locations: the ids of the visits in the area *)
VisitsInArea(vs, poly, end_date) ==
    {v \in UntilEndDate(vs, DOMAIN vs, end_date) :
        vs[v].location_point_id \in LocationsInArea(poly)}

(* the filter without its chipping location half *)
AnimalsInArea_VisitsOnly(as, vs, poly, end_date) ==
    {a \in DOMAIN as :
        \E v \in VisitsInArea(vs, poly, end_date) : vs[v].animal_id = a}

(* Animal.filter(visited_locations in visits OR chipping_location in area) *)
AnimalsInArea(as, vs, poly, end_date) ==
    {a \in DOMAIN as :
        \/ \E v \in VisitsInArea(vs, poly, end_date) : vs[v].animal_id = a
        \/ as[a].chipping_location_id \in LocationsInArea(poly)}

(* the comparison with the startDate itself let in *)
IsInDates_Inclusive(t, start_date) ==
    IF start_date = NoQueryDate THEN TRUE ELSE DateOf(t) >= start_date

(* .date() > start_date if start_date else True *)
IsInDates(t, start_date) ==
    IF start_date = NoQueryDate THEN TRUE ELSE DateOf(t) > start_date

(* get_visited_locations_info *)
VisitedLocationsInfo(as, vs, a, poly, start_date, end_date) ==
    LET ordered == OrderByDate(vs, UntilEndDate(vs, VisitsOf(vs, a), end_date))
    IN  <<[is_in_dates |-> IsInDates(as[a].chipping_date_time, start_date),
           is_in_area |-> as[a].chipping_location_id \in LocationsInArea(poly)]>>
        \o [i \in 1..Len(ordered) |->
              [is_in_dates |-> IsInDates(vs[ordered[i]].date_time, start_date),
               is_in_area |-> vs[ordered[i]].location_point_id
                                 \in LocationsInArea(poly)]]

(* get_analytics started from the wrong side of the border *)
AnalyticsStart_Outside(info) ==
    [is_in_area |-> FALSE, is_arrived |-> FALSE, is_gone |-> FALSE]

(* get_analytics before its loop *)
AnalyticsStart(info) ==
    [is_in_area |-> info[1].is_in_area, is_arrived |-> FALSE, is_gone |-> FALSE]

(* one round of the loop, dating a departure by the position left *)
AnalyticsStep_DatedByFirst(acc, fst, snd) ==
    IF snd.is_in_area
    THEN [is_in_area |-> TRUE,
          is_arrived |-> acc.is_arrived \/ snd.is_in_dates,
          is_gone |-> acc.is_gone]
    ELSE [is_in_area |-> FALSE,
          is_arrived |-> acc.is_arrived,
          is_gone |-> acc.is_gone \/ (fst.is_in_dates /\ fst.is_in_area)]

(* one round of the loop of get_analytics, for the pair fst, snd *)
AnalyticsStep(acc, fst, snd) ==
    IF snd.is_in_area
    THEN [is_in_area |-> TRUE,
          is_arrived |-> acc.is_arrived \/ snd.is_in_dates,
          is_gone |-> acc.is_gone]
    ELSE [is_in_area |-> FALSE,
          is_arrived |-> acc.is_arrived,
          is_gone |-> acc.is_gone \/ (snd.is_in_dates /\ fst.is_in_area)]

RECURSIVE AnalyticsLoop(_, _, _)
(* the loop of get_analytics over zip(info, info[1:]), from pair i - 1, i *)
AnalyticsLoop(info, i, acc) ==
    IF i > Len(info) THEN acc
    ELSE AnalyticsLoop(info, i + 1, AnalyticsStep(acc, info[i - 1], info[i]))

(* the loop started one pair late *)
get_analytics_SkipFirstPair(info) == AnalyticsLoop(info, 3, AnalyticsStart(info))

get_analytics(info) == AnalyticsLoop(info, 2, AnalyticsStart(info))

(* the report with one arrival counted for every visit in the area *)
AreaAnalytics_CountsVisits(as, vs, poly, start_date, end_date) ==
    LET found == AnimalsInArea(as, vs, poly, end_date)
        result == [a \in found |->
                     get_analytics(
                       VisitedLocationsInfo(as, vs, a, poly, start_date, end_date))]
        of_type(t) == {a \in found : t \in as[a].animal_types}
        arrivals(S) == {v \in VisitsInArea(vs, poly, end_date) :
                           /\ vs[v].animal_id \in S
                           /\ IsInDates(vs[v].date_time, start_date)}
    IN  [total_quantity_animals |->
            Cardinality({a \in found : result[a].is_in_area}),
         total_animals_arrived |-> Cardinality(arrivals(found)),
         total_animals_gone |->
            Cardinality({a \in found : result[a].is_gone}),
         animals_analytics |->
            [t \in UNION {as[a].animal_types : a \in found} |->
               [quantity_animals |->
                   Cardinality({a \in of_type(t) : result[a].is_in_area}),
                animals_arrived |-> Cardinality(arrivals(of_type(t))),
                animals_gone |->
                   Cardinality({a \in of_type(t) : result[a].is_gone})]]]

(* the body of get_area_analytics after Area.get: the totals and one entry
   per type of every animal the filter returned *)
AreaAnalytics(as, vs, poly, start_date, end_date) ==
    LET found == AnimalsInArea(as, vs, poly, end_date)
        result == [a \in found |->
                     get_analytics(
                       VisitedLocationsInfo(as, vs, a, poly, start_date, end_date))]
        of_type(t) == {a \in found : t \in as[a].animal_types}
    IN  [total_quantity_animals |->
            Cardinality({a \in found : result[a].is_in_area}),
         total_animals_arrived |->
            Cardinality({a \in found : result[a].is_arrived}),
         total_animals_gone |->
            Cardinality({a \in found : result[a].is_gone}),
         animals_analytics |->
            [t \in UNION {as[a].animal_types : a \in found} |->
               [quantity_animals |->
                   Cardinality({a \in of_type(t) : result[a].is_in_area}),
                animals_arrived |->
                   Cardinality({a \in of_type(t) : result[a].is_arrived}),
                animals_gone |->
                   Cardinality({a \in of_type(t) : result[a].is_gone})]]]

(* GET /areas/{area_id}/analytics *)
get_area_analytics(area_id, start_date, end_date) ==
    /\ response' = Resp("analytics",
                        IF area_id \in DOMAIN areas.rows THEN Ok ELSE NotFound, 0)
    /\ analytics' =
         IF area_id \in DOMAIN areas.rows
         THEN [area_id |-> area_id, start_date |-> start_date,
               end_date |-> end_date,
               report |-> AreaAnalytics(animals, visits,
                             areas.rows[area_id].area_points, start_date, end_date)]
         ELSE NoAnalytics
    /\ UNCHANGED <<animals, visits, nextVisitId, now, proc, started,
                   nextAnimalId, locations, types, areas>>

(* the polygons of the areas the analytics are asked for: one with locations
   1 and 2 inside or on its border, one with locations 2 and 3 *)
AnalyticsPolygons ==
    {[lat1 |-> 0, lat2 |-> 2, lon1 |-> 0, lon2 |-> 2],
     [lat1 |-> 2, lat2 |-> GridSize, lon1 |-> 1, lon2 |-> GridSize]}

(* the store after the locations, the types and one area have been created *)
AnalyticsInit ==
    /\ animals = <<>>
    /\ nextAnimalId = 1
    /\ visits = <<>>
    /\ nextVisitId = 1
    /\ now = 1
    /\ locations = Locations
    /\ types = Types
    /\ areas \in {[next_id |-> 2,
                   rows |-> <<[name |-> "north", area_points |-> poly]>>] :
                     poly \in AnalyticsPolygons}
    /\ analytics = NoAnalytics
    /\ response = NoResponse
    /\ proc = [p \in Procs |-> IdleProc]
    /\ started = 0

AnalyticsNext ==
    \/ \E chip \in LocationIds, type_ids \in TypeLists :
          create_animal(chip, "UNSET", type_ids)
    \/ \E a \in AnimalIds, l \in LocationIds : add_animal_location(a, l)
    \/ \E area_id \in 1..areas.next_id, start_date \in QueryDates,
          end_date \in QueryDates :
          get_area_analytics(area_id, start_date, end_date)

AnalyticsSpec == AnalyticsInit /\ [][AnalyticsNext]_vars

(* ------------------- get_analytics on any list of positions ------------- *)
MaxPositions == 4

(* VisitedLocationInfo *)
PositionInfos == [is_in_dates : BOOLEAN, is_in_area : BOOLEAN]

RECURSIVE InfoLists(_)
(* the lists of n positions *)
InfoLists(n) ==
    IF n = 0 THEN {<<>>}
    ELSE {Append(info, x) : info \in InfoLists(n - 1), x \in PositionInfos}

(* a list of positions handed to get_analytics, not reduced yet *)
ReduceInit ==
    /\ animals = <<>>
    /\ nextAnimalId = 1
    /\ visits = <<>>
    /\ nextVisitId = 1
    /\ now = 1
    /\ locations = Locations
    /\ types = Types
    /\ areas = NoAreas
    /\ analytics \in {[area_id |-> 0, info |-> info, reduced |-> FALSE] :
                        info \in UNION {InfoLists(n) : n \in 1..MaxPositions}}
    /\ response = NoResponse
    /\ proc = [p \in Procs |-> IdleProc]
    /\ started = 0

(* is_in_area, is_arrived, is_gone = get_analytics(visited_locations_info) *)
ApplyGetAnalytics ==
    /\ ~analytics.reduced
    /\ analytics' = [area_id |-> 0, info |-> analytics.info, reduced |-> TRUE,
                     result |-> get_analytics(analytics.info)]
    /\ UNCHANGED <<animals, visits, nextVisitId, now, response, proc, started,
                   nextAnimalId, locations, types, areas>>

ReduceNext == ApplyGetAnalytics

ReduceSpec == ReduceInit /\ [][ReduceNext]_vars

(* ------------------------- what a report says --------------------------- *)
(* the last response is an analytics report *)
AnalyticsAnswered == response.op = "analytics" /\ response.status = "OK"

AskedPolygon == areas.rows[analytics.area_id].area_points

(* the location lies in the area the report is about *)
InAskedArea(l) == PointIntersects(LocationPoint(l), AskedPolygon)

(* the date of timestamp t is strictly after the startDate of the report *)
AfterStartDate(t) ==
    analytics.start_date = NoQueryDate \/ DateOf(t) > analytics.start_date

(* what animal a adds to the totals of the report *)
Contribution(a) ==
    LET rest == AreaAnalytics(Without(animals, a), visits, AskedPolygon,
                              analytics.start_date, analytics.end_date)
    IN  [in_area |-> analytics.report.total_quantity_animals
                        - rest.total_quantity_animals,
         arrived |-> analytics.report.total_animals_arrived
                        - rest.total_animals_arrived,
         gone |-> analytics.report.total_animals_gone - rest.total_animals_gone]

(* chipping position, then the visits of a up to timestamp limit, oldest first *)
PositionsUntil(a, limit) ==
    LET ordered == OrderByDate(visits,
                      {v \in VisitsOf(visits, a) : visits[v].date_time <= limit})
    IN  <<[location |-> animals[a].chipping_location_id,
           date_time |-> animals[a].chipping_date_time]>>
        \o [i \in 1..Len(ordered) |->
              [location |-> visits[ordered[i]].location_point_id,
               date_time |-> visits[ordered[i]].date_time]]

(* the positions the report takes into account: all without endDate *)
PositionsAsked(a) ==
    PositionsUntil(a, IF analytics.end_date = NoQueryDate THEN now
                      ELSE Midnight(analytics.end_date))

(* C12: an animal chipped at a location of the area and without visits adds
   exactly 1 to totalInArea and 0 to totalArrived and totalGone, whatever
   startDate and endDate are. *)
C12_ChippedInsideCountedOnce ==
    AnalyticsAnswered =>
       \A a \in DOMAIN animals :
          (/\ InAskedArea(animals[a].chipping_location_id)
           /\ VisitsOf(visits, a) = {})
          => Contribution(a) = [in_area |-> 1, arrived |-> 0, gone |-> 0]

(* a report with an endDate before the chipping and a startDate not before
   it counts an animal without visits that was chipped in the area *)
C12_Witness ==
    /\ AnalyticsAnswered
    /\ analytics.end_date # NoQueryDate
    /\ analytics.start_date # NoQueryDate
    /\ analytics.report.total_quantity_animals = 1
    /\ \E a \in DOMAIN animals :
          /\ InAskedArea(animals[a].chipping_location_id)
          /\ VisitsOf(visits, a) = {}
          /\ Midnight(analytics.end_date) < animals[a].chipping_date_time
          /\ DateOf(animals[a].chipping_date_time) <= analytics.start_date

(* C13 as stated: an animal chipped outside the area and later seen at a
   location of the area, at a date after startDate and not after endDate,
   is counted in totalArrived and in totalInArea. *)
C13_ArrivedAndInArea ==
    AnalyticsAnswered =>
       \A a \in DOMAIN animals :
          LET pos == PositionsAsked(a)
          IN  (/\ ~InAskedArea(pos[1].location)
               /\ \E i \in 2..Len(pos) :
                     /\ InAskedArea(pos[i].location)
                     /\ AfterStartDate(pos[i].date_time))
              => Contribution(a).arrived = 1 /\ Contribution(a).in_area = 1

(* C13: an animal chipped outside the area with a visit at a location of the
   area, dated strictly after startDate and not after endDate, is counted in
   totalArrived; it is counted in totalInArea exactly when its last position
   not after endDate lies in the area. *)
C13_ArrivalCounted ==
    AnalyticsAnswered =>
       \A a \in DOMAIN animals :
          LET pos == PositionsAsked(a)
          IN  (/\ ~InAskedArea(pos[1].location)
               /\ \E i \in 2..Len(pos) :
                     /\ InAskedArea(pos[i].location)
                     /\ AfterStartDate(pos[i].date_time))
              => /\ Contribution(a).arrived = 1
                 /\ Contribution(a).in_area = 1 <=> InAskedArea(pos[Len(pos)].location)

(* a report with an endDate counts as arrived, and not as in the area, an
   animal chipped outside that entered the area at midnight of the endDate
   at the latest and has left it again *)
C13_Witness ==
    /\ AnalyticsAnswered
    /\ analytics.end_date # NoQueryDate
    /\ analytics.report.total_animals_arrived = 1
    /\ analytics.report.total_quantity_animals = 0
    /\ \E a \in DOMAIN animals :
          LET pos == PositionsAsked(a)
          IN  /\ ~InAskedArea(pos[1].location)
              /\ Len(pos) >= 3
              /\ InAskedArea(pos[Len(pos) - 1].location)
              /\ ~InAskedArea(pos[Len(pos)].location)

(* C14 as stated: an animal whose positions contain a step from a location
   of the area to one outside it, the later one dated after startDate, is
   counted in totalGone and not in totalInArea. *)
C14_GoneAndNotInArea ==
    AnalyticsAnswered =>
       \A a \in DOMAIN animals :
          LET pos == PositionsAsked(a)
          IN  (\E i \in 1..(Len(pos) - 1) :
                  /\ InAskedArea(pos[i].location)
                  /\ ~InAskedArea(pos[i + 1].location)
                  /\ AfterStartDate(pos[i + 1].date_time))
              => Contribution(a).gone = 1 /\ Contribution(a).in_area = 0

(* C14: an animal whose positions not after endDate contain a step from a
   location of the area to one outside it, the later one dated strictly
   after startDate, is counted in totalGone; it is counted in totalInArea
   exactly when its last position not after endDate lies in the area. *)
C14_DepartureCounted ==
    AnalyticsAnswered =>
       \A a \in DOMAIN animals :
          LET pos == PositionsAsked(a)
          IN  (\E i \in 1..(Len(pos) - 1) :
                  /\ InAskedArea(pos[i].location)
                  /\ ~InAskedArea(pos[i + 1].location)
                  /\ AfterStartDate(pos[i + 1].date_time))
              => /\ Contribution(a).gone = 1
                 /\ Contribution(a).in_area = 1 <=> InAskedArea(pos[Len(pos)].location)

(* a report with a startDate counts as gone and as in the area an animal that
   left the area after the startDate and came back *)
C14_Witness ==
    /\ AnalyticsAnswered
    /\ analytics.start_date # NoQueryDate
    /\ analytics.report.total_animals_gone = 1
    /\ analytics.report.total_quantity_animals = 1
    /\ \E a \in DOMAIN animals :
          LET pos == PositionsAsked(a)
          IN  /\ Len(pos) >= 3
              /\ InAskedArea(pos[Len(pos) - 2].location)
              /\ ~InAskedArea(pos[Len(pos) - 1].location)
              /\ InAskedArea(pos[Len(pos)].location)

(* C15: an animal is counted in totalArrived only if its positions contain a
   step from a location outside the area to one inside it, the later one
   dated strictly after startDate; a move between two locations of the area
   is no arrival. *)
C15_ArrivalNeedsEntry ==
    AnalyticsAnswered =>
       \A a \in DOMAIN animals :
          LET pos == PositionsAsked(a)
          IN  Contribution(a).arrived = 1 =>
                 \E i \in 1..(Len(pos) - 1) :
                    /\ ~InAskedArea(pos[i].location)
                    /\ InAskedArea(pos[i + 1].location)
                    /\ AfterStartDate(pos[i + 1].date_time)

(* C16: every entry of the per-type breakdown of a report has a count that
   is not zero. *)
C16_NoEmptyTypeEntry ==
    AnalyticsAnswered =>
       \A t \in DOMAIN analytics.report.animals_analytics :
          LET entry == analytics.report.animals_analytics[t]
          IN  \/ entry.quantity_animals # 0
              \/ entry.animals_arrived # 0
              \/ entry.animals_gone # 0

(* no two stored areas have polygons that are equal, overlap or lie one in
   the other *)
AreasApart ==
    \A x \in DOMAIN areas.rows, y \in DOMAIN areas.rows :
        x # y =>
          LET a == areas.rows[x].area_points
              b == areas.rows[y].area_points
          IN  /\ ~PolygonEquals(a, b)
              /\ ~PolygonOverlaps(a, b)
              /\ ~PolygonContains(a, b)

(* C17: after any sequence of create_area, update_area and delete_area no
   two stored areas have polygons that are equal, overlap or lie one in the
   other, and a create or update that is rejected leaves the stored areas as
   they were. *)
C17_AreasStayApart ==
    /\ []AreasApart
    /\ [][(/\ response'.op \in {"create_area", "update_area"}
           /\ response'.status # "OK")
          => areas' = areas]_vars

(* an update_area was rejected because its polygon lies inside the other
   stored area *)
C17_Witness ==
    /\ response = Resp("update_area", BadRequest("is inside"), 0)
    /\ Cardinality(DOMAIN areas.rows) = 2

(* ------------- animal types and the deletion of referenced rows --------- *)
(* add_animal_type: Animal.get and AnimalType.get; animal_types.add leaves
   out, without an error, a type the animal has already *)
AddTypeStatus(as, a, t) ==
    IF ~AnimalExists(as, a) THEN NotFound
    ELSE IF t \notin types THEN NotFound
    ELSE Ok

(* POST /animals/{animal_id}/types/{type_id} *)
add_animal_type(a, t) ==
    LET st == AddTypeStatus(animals, a, t)
    IN  /\ animals' = IF st = Ok
                      THEN [animals EXCEPT ![a].animal_types = @ \cup {t}]
                      ELSE animals
        /\ response' = Resp("add_type", st,
                            IF st = Ok /\ t \notin animals[a].animal_types
                            THEN 1 ELSE 0)
        /\ analytics' = NoAnalytics
        /\ UNCHANGED <<visits, nextVisitId, now, proc, started, nextAnimalId,
                       locations, types, areas>>

(* update_animal_type: Animal.get, AnimalType.get of the new type, the get
   of the old type among the animal's, the check of the new type *)
UpdateTypeStatus(as, a, old, new) ==
    IF ~AnimalExists(as, a) THEN NotFound
    ELSE IF new \notin types THEN NotFound
    ELSE IF old \notin as[a].animal_types THEN NotFound
    ELSE IF new \in as[a].animal_types THEN Conflict
    ELSE Ok

(* PUT /animals/{animal_id}/types *)
update_animal_type(a, old, new) ==
    LET st == UpdateTypeStatus(animals, a, old, new)
    IN  /\ animals' = IF st = Ok
                      THEN [animals EXCEPT ![a].animal_types = (@ \ {old}) \cup {new}]
                      ELSE animals
        /\ response' = Resp("update_type", st, IF st = Ok THEN 2 ELSE 0)
        /\ analytics' = NoAnalytics
        /\ UNCHANGED <<visits, nextVisitId, now, proc, started, nextAnimalId,
                       locations, types, areas>>

(* delete_animal_type_relation without the check of the last type *)
RemoveTypeStatus_NoLastCheck(as, a, t) ==
    IF ~AnimalExists(as, a) THEN NotFound
    ELSE IF t \notin as[a].animal_types THEN NotFound
    ELSE Ok

(* delete_animal_type_relation: Animal.get, the get of the type among the
   animal's, the check of the last type *)
RemoveTypeStatus(as, a, t) ==
    IF ~AnimalExists(as, a) THEN NotFound
    ELSE IF t \notin as[a].animal_types THEN NotFound
    ELSE IF Cardinality(as[a].animal_types) = 1 THEN BadRequest("")
    ELSE Ok

(* DELETE /animals/{animal_id}/types/{type_id} *)
delete_animal_type_relation(a, t) ==
    LET st == RemoveTypeStatus(animals, a, t)
    IN  /\ animals' = IF st = Ok
                      THEN [animals EXCEPT ![a].animal_types = @ \ {t}]
                      ELSE animals
        /\ response' = Resp("remove_type", st, IF st = Ok THEN 1 ELSE 0)
        /\ analytics' = NoAnalytics
        /\ UNCHANGED <<visits, nextVisitId, now, proc, started, nextAnimalId,
                       locations, types, areas>>

(* delete_animal_type: AnimalType.get and the check of its animals *)
DeleteTypeStatus(as, t) ==
    IF t \notin types THEN NotFound
    ELSE IF \E a \in DOMAIN as : t \in as[a].animal_types THEN BadRequest("")
    ELSE Ok

(* DELETE /animals/types/{animal_type_id} *)
delete_animal_type(t) ==
    LET st == DeleteTypeStatus(animals, t)
    IN  /\ types' = IF st = Ok THEN types \ {t} ELSE types
        /\ response' = Resp("delete_type", st, IF st = Ok THEN 1 ELSE 0)
        /\ analytics' = NoAnalytics
        /\ UNCHANGED <<animals, visits, nextVisitId, now, proc, started,
                       nextAnimalId, locations, areas>>

(* delete_animal: Animal.get and the check of its visits *)
DeleteAnimalStatus(as, vs, a) ==
    IF ~AnimalExists(as, a) THEN NotFound
    ELSE IF Len(FetchRelated(vs, a)) > 0 THEN BadRequest("")
    ELSE Ok

(* DELETE /animals/{animal_id} *)
delete_animal(a) ==
    LET st == DeleteAnimalStatus(animals, visits, a)
    IN  /\ animals' = IF st = Ok THEN Without(animals, a) ELSE animals
        /\ response' = Resp("delete_animal", st, IF st = Ok THEN 1 ELSE 0)
        /\ analytics' = NoAnalytics
        /\ UNCHANGED <<visits, nextVisitId, now, proc, started, nextAnimalId,
                       locations, types, areas>>

(* delete_location without the check of the visits *)
DeleteLocationStatus_NoVisitCheck(as, vs, l) ==
    IF ~LocationExists(l) THEN NotFound
    ELSE IF \E a \in DOMAIN as : as[a].chipping_location_id = l THEN BadRequest("")
    ELSE Ok

(* delete_location: Location.get, the check of the chipped animals and of
   the visits *)
DeleteLocationStatus(as, vs, l) ==
    IF ~LocationExists(l) THEN NotFound
    ELSE IF \E a \in DOMAIN as : as[a].chipping_location_id = l THEN BadRequest("")
    ELSE IF \E v \in DOMAIN vs : vs[v].location_point_id = l THEN BadRequest("")
    ELSE Ok

(* DELETE /locations/{location_id} *)
delete_location(l) ==
    LET st == DeleteLocationStatus(animals, visits, l)
    IN  /\ locations' = IF st = Ok THEN locations \ {l} ELSE locations
        /\ response' = Resp("delete_location", st, IF st = Ok THEN 1 ELSE 0)
        /\ analytics' = NoAnalytics
        /\ UNCHANGED <<animals, visits, nextVisitId, now, proc, started,
                       nextAnimalId, types, areas>>

(* the handlers of animals and visits and the deletion of animals,
   locations and types, one request at a time *)
StoreNext ==
    \/ Next
    \/ \E a \in RequestAnimalIds : delete_animal(a)
    \/ \E l \in LocationIds : delete_location(l)
    \/ \E t \in TypeIds : delete_animal_type(t)

StoreSpec == Init /\ [][StoreNext]_vars

(* the handlers of the types of an animal, one request at a time *)
TypeNext ==
    \/ \E chip \in LocationIds, life \in LifeStatuses \cup {"UNSET"},
          type_ids \in TypeLists : create_animal(chip, life, type_ids)
    \/ \E a \in RequestAnimalIds : delete_animal(a)
    \/ \E a \in RequestAnimalIds, t \in TypeIds : add_animal_type(a, t)
    \/ \E a \in RequestAnimalIds, old \in TypeIds, new \in TypeIds :
          update_animal_type(a, old, new)
    \/ \E a \in RequestAnimalIds, t \in TypeIds : delete_animal_type_relation(a, t)
    \/ \E t \in TypeIds : delete_animal_type(t)

TypeSpec == Init /\ [][TypeNext]_vars

(* every stored animal has at least one type *)
EveryAnimalTyped == \A a \in DOMAIN animals : animals[a].animal_types # {}

(* C18: every animal has at least one animal type in every reachable state;
   create_animal stores an animal only with a list of types that is not
   empty and holds stored types, removing the only type of an animal is
   rejected with BadRequest, and update_animal_type leaves the number of
   types of every animal as it was. *)
C18_AnimalKeepsAType ==
    /\ []EveryAnimalTyped
    /\ [][/\ \A a \in DOMAIN animals' \ DOMAIN animals :
                 /\ animals'[a].animal_types # {}
                 /\ animals'[a].animal_types \subseteq types
          /\ \A a \in DOMAIN animals, t \in TypeIds :
                 (delete_animal_type_relation(a, t) /\ animals[a].animal_types = {t})
                 => response'.status = "BadRequest" /\ animals' = animals
          /\ response'.op = "update_type" =>
                 /\ DOMAIN animals' = DOMAIN animals
                 /\ \A a \in DOMAIN animals :
                       Cardinality(animals'[a].animal_types)
                          = Cardinality(animals[a].animal_types)]_vars

(* the removal of the only type of an animal has been rejected *)
C18_Witness ==
    /\ response = Resp("remove_type", BadRequest(""), 0)
    /\ \E a \in DOMAIN animals : Cardinality(animals[a].animal_types) = 1

(* C19: add_animal_type of a type the animal has already is rejected with
   BadRequest or Conflict and leaves the types of the animal as they were,
   and update_animal_type to a type the animal has already is rejected with
   Conflict. *)
C19_DuplicateTypeRejected ==
    [][/\ \A a \in DOMAIN animals, t \in TypeIds :
            (add_animal_type(a, t) /\ t \in animals[a].animal_types)
            => /\ response'.status \in {"BadRequest", "Conflict"}
               /\ animals' = animals
       /\ \A a \in DOMAIN animals, old \in TypeIds, new \in TypeIds :
            (/\ update_animal_type(a, old, new)
             /\ old \in animals[a].animal_types
             /\ new \in animals[a].animal_types)
            => response'.status = "Conflict" /\ animals' = animals]_vars

(* every visit names a stored animal and a stored location, every animal a
   stored chipping location *)
ReferencesExist ==
    /\ \A v \in DOMAIN visits :
          /\ visits[v].animal_id \in DOMAIN animals
          /\ visits[v].location_point_id \in locations
    /\ \A a \in DOMAIN animals : animals[a].chipping_location_id \in locations

(* location l is named by a visit or as a chipping location *)
LocationInUse(l) ==
    \/ \E v \in DOMAIN visits : visits[v].location_point_id = l
    \/ \E a \in DOMAIN animals : animals[a].chipping_location_id = l

(* C20: no step deletes an animal that has a visit, a location that a visit
   or a chipping location names, or a type that an animal has, and a
   delete_animal, delete_location or delete_animal_type that deletes nothing
   is not answered OK; so every visit names a stored animal and a stored
   location and every animal a stored chipping location, in every reachable
   state. *)
C20_ReferencedRowsStay ==
    /\ []ReferencesExist
    /\ [][/\ \A a \in DOMAIN animals \ DOMAIN animals' : VisitsOf(visits, a) = {}
          /\ \A l \in locations \ locations' : ~LocationInUse(l)
          /\ \A t \in types \ types' :
                \A a \in DOMAIN animals : t \notin animals[a].animal_types
          /\ (response'.op \in {"delete_animal", "delete_location", "delete_type"}
                /\ animals' = animals /\ locations' = locations /\ types' = types)
             => response'.status \in {"BadRequest", "NotFound"}]_vars

(* a delete_location was rejected while a location is named by a visit and
   by no chipping location, and another location has been deleted *)
C20_Witness ==
    /\ response = Resp("delete_location", BadRequest(""), 0)
    /\ locations # Locations
    /\ \E v \in DOMAIN visits :
          \A a \in DOMAIN animals :
             animals[a].chipping_location_id # visits[v].location_point_id


(* ---------------------- the frame of the visit handlers ----------------- *)
(* C21: delete_animal_location of a visit of the named animal is answered
   OK, and unless the visit is the oldest of a trail of at least two whose
   second oldest visit is at the chipping location, it removes that visit
   only: every other visit and every animal is as before. *)
C21_PlainDeleteRemovesOne ==
    [][response'.op = "delete"
       => \A a \in DOMAIN animals, v \in DOMAIN visits :
         (visits[v].animal_id = a /\ delete_animal_location(a, v))
         => LET old == Trail(visits, a)
            IN  /\ response'.status = "OK"
                /\ (\/ v # old[1]
                    \/ Len(old) = 1
                    \/ visits[old[2]].location_point_id
                         # animals[a].chipping_location_id)
                   => /\ DOMAIN visits' = DOMAIN visits \ {v}
                      /\ RowsKept(visits, visits', DOMAIN visits \ {v})
                      /\ animals' = animals]_vars

(* a delete removed one visit and left a trail whose oldest visit is not the
   one created first, with a second visit behind it *)
C21_Witness ==
    /\ response.op = "delete"
    /\ response.status = "OK"
    /\ response.writes = 1
    /\ \E a \in DOMAIN animals :
          /\ Len(Trail(visits, a)) = 2
          /\ 1 \notin DOMAIN visits


(* C22: an update_animal_location answered OK stores the new location on the
   named visit and changes nothing else: the visit keeps its date and its
   animal, every trail lists the same visits in the same order, every other
   visit and every animal is as before. *)
C22_UpdateChangesLocationOnly ==
    [][(response'.op = "update" /\ response'.status = "OK")
       => \A a \in DOMAIN animals, v \in DOMAIN visits, l \in Locations :
         update_animal_location(a, v, l)
         => /\ DOMAIN visits' = DOMAIN visits
            /\ visits'[v].location_point_id = l
            /\ visits'[v].date_time = visits[v].date_time
            /\ visits'[v].animal_id = visits[v].animal_id
            /\ \A b \in DOMAIN animals : Trail(visits', b) = Trail(visits, b)
            /\ RowsKept(visits, visits', DOMAIN visits \ {v})
            /\ animals' = animals]_vars

(* an update succeeded on a trail of three visits *)
C22_Witness ==
    /\ response.op = "update"
    /\ response.status = "OK"
    /\ \E a \in DOMAIN animals : Len(Trail(visits, a)) = 3


(* ------------------------- life status and death date ------------------- *)
(* C23: in every state an animal has a death date exactly when its life
   status is DEAD, animals created with life status DEAD included. *)
C23_DeathDateIffDead ==
    \A a \in DOMAIN animals :
        (animals[a].death_date_time # NoDate) <=> (animals[a].life_status = "DEAD")


(* C24: under every interleaving of an add_animal_location and an
   update_animal to DEAD on one animal, no visit is created for an animal
   whose stored life status is DEAD. *)
C24_NoVisitOnceDeadStored ==
    [][\A v \in DOMAIN visits' \ DOMAIN visits :
         animals[visits'[v].animal_id].life_status # "DEAD"]_vars


(* C25: under every interleaving of two update_animal requests on one
   animal, no step takes the stored life status from DEAD to ALIVE and no
   step changes or clears a stored death date. *)
C25_ConcurrentUpdatesKeepDeath ==
    [][\A a \in DOMAIN animals :
         /\ animals[a].life_status = "DEAD" => animals'[a].life_status = "DEAD"
         /\ animals[a].death_date_time # NoDate
            => animals'[a].death_date_time = animals[a].death_date_time]_vars


(* ------------------------- the reduction of a trail --------------------- *)
(* C26: for every non-empty list of positions p, get_analytics answers
   is_in_area = the last position is in the area, is_arrived = some position
   after the first is in the area and in the dates, is_gone = some position
   after the first is out of the area and in the dates while the position
   before it is in the area. *)
C26_ReductionOfPositions ==
    analytics.reduced
    => LET p == analytics.info
           r == analytics.result
       IN  /\ r.is_in_area = p[Len(p)].is_in_area
           /\ r.is_arrived = (\E i \in 2..Len(p) :
                                p[i].is_in_area /\ p[i].is_in_dates)
           /\ r.is_gone = (\E i \in 2..Len(p) :
                             /\ p[i - 1].is_in_area
                             /\ ~p[i].is_in_area
                             /\ p[i].is_in_dates)

(* get_analytics answered in the area, arrived and gone at once *)
C26_Witness ==
    /\ analytics.reduced
    /\ analytics.result =
          [is_in_area |-> TRUE, is_arrived |-> TRUE, is_gone |-> TRUE]


(* ------------------------ the animals a report reads -------------------- *)
(* what get_analytics answers for animal a under the dates of the report *)
Classification(a) ==
    get_analytics(VisitedLocationsInfo(animals, visits, a, AskedPolygon,
                                       analytics.start_date, analytics.end_date))

(* the animals the filter of the report returned *)
Candidates ==
    AnimalsInArea(animals, visits, AskedPolygon, analytics.end_date)

(* the count of type t in the report, 0 when the report has no entry for t *)
TypeCount(t, field) ==
    IF t \in DOMAIN analytics.report.animals_analytics
    THEN analytics.report.animals_analytics[t][field]
    ELSE 0

(* C27: every animal the filter of a report leaves out is classified not in
   the area, not arrived and not gone, and the totals and the counts of every
   type are the ones obtained by classifying every stored animal. *)
C27_FilterLosesNothing ==
    AnalyticsAnswered =>
       LET among(t) == {a \in DOMAIN animals : t \in animals[a].animal_types}
       IN  /\ \A a \in DOMAIN animals \ Candidates :
                Classification(a) =
                  [is_in_area |-> FALSE, is_arrived |-> FALSE, is_gone |-> FALSE]
           /\ analytics.report.total_quantity_animals =
                Cardinality({a \in DOMAIN animals : Classification(a).is_in_area})
           /\ analytics.report.total_animals_arrived =
                Cardinality({a \in DOMAIN animals : Classification(a).is_arrived})
           /\ analytics.report.total_animals_gone =
                Cardinality({a \in DOMAIN animals : Classification(a).is_gone})
           /\ \A t \in Types :
                /\ TypeCount(t, "quantity_animals") =
                     Cardinality({a \in among(t) : Classification(a).is_in_area})
                /\ TypeCount(t, "animals_arrived") =
                     Cardinality({a \in among(t) : Classification(a).is_arrived})
                /\ TypeCount(t, "animals_gone") =
                     Cardinality({a \in among(t) : Classification(a).is_gone})

(* a report left out an animal whose only visits in the area are after the
   endDate *)
C27_Witness ==
    /\ AnalyticsAnswered
    /\ \E a \in DOMAIN animals \ Candidates :
          \E v \in VisitsOf(visits, a) : InAskedArea(visits[v].location_point_id)


(* C28: in the list of positions of an animal a position is in the dates
   exactly when the report has no startDate or the date of the position is
   strictly after it; the visits dated after the endDate are left out and
   the chipping position is the first of the list whatever the endDate. *)
C28_PositionsAndDates ==
    AnalyticsAnswered =>
       \A a \in DOMAIN animals :
          LET info == VisitedLocationsInfo(animals, visits, a, AskedPolygon,
                         analytics.start_date, analytics.end_date)
              kept == {v \in VisitsOf(visits, a) :
                          \/ analytics.end_date = NoQueryDate
                          \/ visits[v].date_time <= Midnight(analytics.end_date)}
              ordered == OrderByDate(visits, kept)
          IN  /\ Len(info) = 1 + Cardinality(kept)
              /\ info[1].is_in_area = InAskedArea(animals[a].chipping_location_id)
              /\ info[1].is_in_dates =
                    (\/ analytics.start_date = NoQueryDate
                     \/ DateOf(animals[a].chipping_date_time) > analytics.start_date)
              /\ \A i \in 1..Len(ordered) :
                    /\ info[i + 1].is_in_area =
                          InAskedArea(visits[ordered[i]].location_point_id)
                    /\ info[i + 1].is_in_dates =
                          (\/ analytics.start_date = NoQueryDate
                           \/ DateOf(visits[ordered[i]].date_time)
                                 > analytics.start_date)

(* a report whose startDate is the date of a visit and whose endDate is
   before a visit and before the chipping *)
C28_Witness ==
    /\ AnalyticsAnswered
    /\ analytics.start_date # NoQueryDate
    /\ analytics.end_date # NoQueryDate
    /\ \E a \in DOMAIN animals :
          /\ animals[a].chipping_date_time > Midnight(analytics.end_date)
          /\ \E v \in VisitsOf(visits, a) :
                DateOf(visits[v].date_time) = analytics.start_date
          /\ \E v \in VisitsOf(visits, a) :
                visits[v].date_time > Midnight(analytics.end_date)


(* ------------------------- what one animal adds ------------------------- *)
(* the report of the same question on the store without animal a *)
ReportWithout(a) ==
    AreaAnalytics(Without(animals, a), visits, AskedPolygon,
                  analytics.start_date, analytics.end_date)

(* the count of type t in a report, 0 when it has no entry for t *)
CountIn(report, t, field) ==
    IF t \in DOMAIN report.animals_analytics
    THEN report.animals_analytics[t][field]
    ELSE 0

(* C29: in every report an animal adds 0 or 1 to each of the three totals,
   however many visits it has; it adds the same amounts to the entry of each
   of its types and nothing to the entry of any other type; and no count of
   a type exceeds the total of the same kind. *)
C29_OneAnimalOneCount ==
    AnalyticsAnswered =>
       /\ \A a \in DOMAIN animals :
             LET c == Contribution(a)
                 rest == ReportWithout(a)
                 added(t, field) == CountIn(analytics.report, t, field)
                                       - CountIn(rest, t, field)
             IN  /\ c.in_area \in {0, 1}
                 /\ c.arrived \in {0, 1}
                 /\ c.gone \in {0, 1}
                 /\ \A t \in Types :
                       IF t \in animals[a].animal_types
                       THEN /\ added(t, "quantity_animals") = c.in_area
                            /\ added(t, "animals_arrived") = c.arrived
                            /\ added(t, "animals_gone") = c.gone
                       ELSE /\ added(t, "quantity_animals") = 0
                            /\ added(t, "animals_arrived") = 0
                            /\ added(t, "animals_gone") = 0
       /\ \A t \in DOMAIN analytics.report.animals_analytics :
             LET entry == analytics.report.animals_analytics[t]
             IN  /\ entry.quantity_animals <= analytics.report.total_quantity_animals
                 /\ entry.animals_arrived <= analytics.report.total_animals_arrived
                 /\ entry.animals_gone <= analytics.report.total_animals_gone

(* a report counts once, in the total and in the entries of both its types,
   an animal with two visits in the area *)
C29_Witness ==
    /\ AnalyticsAnswered
    /\ analytics.report.total_animals_arrived = 1
    /\ \E a \in DOMAIN animals :
          /\ animals[a].animal_types = {1, 2}
          /\ DOMAIN analytics.report.animals_analytics = {1, 2}
          /\ analytics.report.animals_analytics[1].animals_arrived = 1
          /\ analytics.report.animals_analytics[2].animals_arrived = 1
          /\ Cardinality({v \in VisitsOf(visits, a) :
                             InAskedArea(visits[v].location_point_id)}) >= 2


(* ------------------------ requests and their caller --------------------- *)
(* AccountRole, the role with most rights first *)
AccountRole == <<"ADMIN", "CHIPPER", "USER">>

(* AccountRole.__lt__: the role later in the list is the lesser one *)
RoleLess(a, b) == IndexOf(AccountRole, a) > IndexOf(AccountRole, b)

(* current_user is None: the request carries no credentials *)
NoUser == "None"

(* what get_current_user returns: nothing, or an account by its role *)
CurrentUsers == {NoUser} \cup {AccountRole[i] : i \in DOMAIN AccountRole}

(* HTTPException(401) *)
Unauthorized == [status |-> "Unauthorized", detail |-> ""]

(* HTTPException(403) *)
Forbidden == [status |-> "Forbidden", detail |-> ""]

(* the wrapper of @login_required(min_role) around a handler *)
LoginRequired(current_user, min_role) ==
    IF current_user = NoUser THEN Unauthorized
    ELSE IF RoleLess(current_user, min_role) THEN Forbidden
    ELSE Ok

(* the statement login_required(current_user) in a handler body: it builds
   a decorator with current_user as min_role, wraps nothing and raises
   nothing *)
LoginRequiredCall(current_user) == Ok

(* a request answered by the wrapper, before the handler *)
Refused(op, answer) ==
    /\ response' = Resp(op, answer, 0)
    /\ analytics' = NoAnalytics
    /\ UNCHANGED <<animals, visits, nextVisitId, now, proc, started,
                   nextAnimalId, locations, types, areas>>

(* add_animal_location as the router calls it *)
add_animal_location_by(current_user, a, l) ==
    IF LoginRequiredCall(current_user) = Ok
    THEN add_animal_location(a, l)
    ELSE Refused("add", LoginRequiredCall(current_user))

(* delete_animal_location as the router calls it *)
delete_animal_location_by(current_user, a, v) ==
    IF LoginRequiredCall(current_user) = Ok
    THEN delete_animal_location(a, v)
    ELSE Refused("delete", LoginRequiredCall(current_user))

(* update_animal_location as the router calls it *)
update_animal_location_by(current_user, a, v, l) ==
    IF LoginRequiredCall(current_user) = Ok
    THEN update_animal_location(a, v, l)
    ELSE Refused("update", LoginRequiredCall(current_user))

(* update_animal under @login_required(AccountRole.CHIPPER) *)
update_animal_by(current_user, a, life, chip) ==
    IF LoginRequired(current_user, "CHIPPER") = Ok
    THEN update_animal(a, life, chip)
    ELSE Refused("update_animal", LoginRequired(current_user, "CHIPPER"))

(* create_animal under @login_required(AccountRole.CHIPPER) *)
create_animal_by(current_user, chip, life, type_ids) ==
    IF LoginRequired(current_user, "CHIPPER") = Ok
    THEN create_animal(chip, life, type_ids)
    ELSE Refused("create", LoginRequired(current_user, "CHIPPER"))

CallerNext ==
    \/ \E u \in CurrentUsers, chip \in LocationIds, type_ids \in TypeLists :
          create_animal_by(u, chip, "UNSET", type_ids)
    \/ \E u \in CurrentUsers, a \in AnimalIds, l \in LocationIds :
          add_animal_location_by(u, a, l)
    \/ \E u \in CurrentUsers, a \in AnimalIds, v \in 1..nextVisitId :
          delete_animal_location_by(u, a, v)
    \/ \E u \in CurrentUsers, a \in AnimalIds, v \in 1..nextVisitId,
          l \in LocationIds : update_animal_location_by(u, a, v, l)
    \/ \E u \in CurrentUsers, a \in AnimalIds, life \in LifeStatuses,
          chip \in LocationIds : update_animal_by(u, a, life, chip)

CallerSpec == Init /\ [][CallerNext]_vars

(* C30: add_animal_location, delete_animal_location and
   update_animal_location answer a request without credentials with 401 and
   leave the visits as they were, as update_animal does. *)
C30_VisitHandlersNeedLogin ==
    [][\A a \in DOMAIN animals :
         /\ \A l \in LocationIds :
               add_animal_location_by(NoUser, a, l)
               => response'.status = "Unauthorized" /\ visits' = visits
         /\ \A v \in 1..nextVisitId :
               delete_animal_location_by(NoUser, a, v)
               => response'.status = "Unauthorized" /\ visits' = visits
         /\ \A v \in 1..nextVisitId, l \in LocationIds :
               update_animal_location_by(NoUser, a, v, l)
               => response'.status = "Unauthorized" /\ visits' = visits
         /\ \A life \in LifeStatuses, chip \in LocationIds :
               update_animal_by(NoUser, a, life, chip)
               => response'.status = "Unauthorized" /\ animals' = animals]_vars

====
